---- MODULE Spec2Model ----
(***************************************************************************)
(* A model of the getpass backend (src/main.py): the date converter        *)
(* convert_to_hijri, the template filler process_document, and the         *)
(* request handler generate_getpass with its PDF / Word / ZIP fallback     *)
(* chain.                                                                  *)
(*                                                                         *)
(* A Python str is a sequence of symbols.  ASCII characters are one-       *)
(* character strings; an Arabic word of the source is one symbol, written  *)
(* in transliteration, because no operation of the program looks inside    *)
(* one (the one exception, the label fragment that starts at the second    *)
(* letter of the label, is split at that letter).                          *)
(***************************************************************************)
EXTENDS Integers, Sequences, FiniteSets, TLC

VARIABLES
    date_str,            \* SpecDate: the argument of convert_to_hijri
    date_result,         \* SpecDate: what convert_to_hijri returned or raised
    pd_args,             \* SpecDoc: the arguments of process_document
    pd_result,           \* SpecDoc: the saved document, or the exception raised
    data,                \* request -> the GetPassData of the request
    pc,                  \* request -> position of its handler
    i,                   \* request -> index of the date the loop is at (enumerate)
    docx_files,          \* request -> list of docx paths (main.py:459)
    pdf_files,           \* request -> list of pdf paths (main.py:460)
    conversion_success,  \* request -> the flag of main.py:461
    temp_dir,            \* request -> files of its TemporaryDirectory (path -> content)
    calls,               \* request -> the calls to convert_to_pdf, merge_pdfs and
                         \* create_docx_zip so far, each with what it returned
    output_dir,          \* the shared "output" directory (file name -> content)
    response,            \* request -> what the handler returned or raised
    body,                \* request -> the bytes the client received
    running              \* the request whose handler holds the event loop, or 0

vars == <<date_str, date_result, pd_args, pd_result, data, pc, i, docx_files,
          pdf_files, conversion_success, temp_dir, calls, output_dir,
          response, body, running>>

dateVars == <<date_str, date_result>>
docVars  == <<pd_args, pd_result>>
reqVars  == <<data, pc, i, docx_files, pdf_files, conversion_success, temp_dir,
              calls, output_dir, response, body, running>>

None == "None"

\* a result not produced yet
Pending == [pending |-> TRUE]

(***************************************************************************)
(* Strings                                                                 *)
(***************************************************************************)
DigitChars == <<"0", "1", "2", "3", "4", "5", "6", "7", "8", "9">>

IsDigit(c) == \E k \in 1..10 : DigitChars[k] = c

DigitValue(c) == (CHOOSE k \in 1..10 : DigitChars[k] = c) - 1

\* str(n) for n >= 0
RECURSIVE Decimal(_)
Decimal(n) == IF n < 10 THEN <<DigitChars[n + 1]>>
              ELSE Decimal(n \div 10) \o <<DigitChars[(n % 10) + 1]>>

\* the format spec ":02d": zero-padded to a minimum width of two
Format02d(n) == IF Len(Decimal(n)) < 2 THEN <<"0">> \o Decimal(n) ELSE Decimal(n)

\* int(s) for a string of digits
RECURSIVE IntOf(_)
IntOf(s) == IF s = <<>> THEN 0
            ELSE 10 * IntOf(SubSeq(s, 1, Len(s) - 1)) + DigitValue(s[Len(s)])

AllDigits(s) == \A k \in 1..Len(s) : IsDigit(s[k])

\* key in text
Contains(text, key) ==
    \E k \in 0..(Len(text) - Len(key)) : SubSeq(text, k + 1, k + Len(key)) = key

StartsWith(text, key) ==
    Len(key) <= Len(text) /\ SubSeq(text, 1, Len(key)) = key

\* text.replace(key, value): every non-overlapping occurrence, left to right
\* (key is never empty here)
RECURSIVE Replace(_, _, _)
Replace(text, key, value) ==
    IF text = <<>> THEN <<>>
    ELSE IF StartsWith(text, key)
         THEN value \o Replace(SubSeq(text, Len(key) + 1, Len(text)), key, value)
         ELSE <<text[1]>> \o Replace(Tail(text), key, value)

\* text.split(sep) for a one-character separator
RECURSIVE Split(_, _)
Split(text, sep) ==
    IF \A k \in 1..Len(text) : text[k] # sep THEN <<text>>
    ELSE LET p == CHOOSE k \in 1..Len(text) :
                      text[k] = sep /\ \A j \in 1..(k - 1) : text[j] # sep
         IN  <<SubSeq(text, 1, p - 1)>> \o Split(SubSeq(text, p + 1, Len(text)), sep)

Whitespace == {" ", "\n", "\t"}

\* text.strip()
RECURSIVE Strip(_)
Strip(text) ==
    IF text = <<>> THEN <<>>
    ELSE IF text[1] \in Whitespace THEN Strip(Tail(text))
    ELSE IF text[Len(text)] \in Whitespace THEN Strip(SubSeq(text, 1, Len(text) - 1))
    ELSE text

(***************************************************************************)
(* convert_to_hijri                                                        *)
(***************************************************************************)
\* Arabic day names, Sunday first (transliterated)
ARABIC_DAY_NAMES ==
    << <<"al-Ahad">>, <<"al-Ithnayn">>, <<"ath-Thulatha">>, <<"al-Arbia">>,
       <<"al-Khamis">>, <<"al-Jumua">>, <<"as-Sabt">> >>

IsLeap(y) == (y % 4 = 0) /\ ((y % 100 # 0) \/ (y % 400 = 0))

DaysInMonth(y, m) ==
    IF m = 2 THEN (IF IsLeap(y) THEN 29 ELSE 28)
    ELSE IF m \in {4, 6, 9, 11} THEN 30 ELSE 31

RECURSIVE DaysBeforeMonth(_, _)
DaysBeforeMonth(y, m) ==
    IF m = 1 THEN 0 ELSE DaysBeforeMonth(y, m - 1) + DaysInMonth(y, m - 1)

\* date.toordinal(): 1 is 0001-01-01
ToOrdinal(y, m, d) ==
    LET p == y - 1
    IN  p * 365 + (p \div 4) - (p \div 100) + (p \div 400) + DaysBeforeMonth(y, m) + d

\* date.weekday(): Monday is 0
weekday(y, m, d) == (ToOrdinal(y, m, d) + 6) % 7

\* two digits below a limit, as the parser reads an hour, minute or second
TwoDigitsBelow(s, limit) == Len(s) = 2 /\ AllDigits(s) /\ IntOf(s) < limit

\* HH[:MM[:SS]]
IsTime(s) ==
    \/ TwoDigitsBelow(s, 24)
    \/ /\ Len(s) = 5 /\ s[3] = ":"
       /\ TwoDigitsBelow(SubSeq(s, 1, 2), 24) /\ TwoDigitsBelow(SubSeq(s, 4, 5), 60)
    \/ /\ Len(s) = 8 /\ s[3] = ":" /\ s[6] = ":"
       /\ TwoDigitsBelow(SubSeq(s, 1, 2), 24) /\ TwoDigitsBelow(SubSeq(s, 4, 5), 60)
       /\ TwoDigitsBelow(SubSeq(s, 7, 8), 60)

\* +HH:MM or -HH:MM
IsOffset(s) ==
    /\ Len(s) = 6 /\ s[1] \in {"+", "-"} /\ s[4] = ":"
    /\ TwoDigitsBelow(SubSeq(s, 2, 3), 24) /\ TwoDigitsBelow(SubSeq(s, 5, 6), 60)

\* the part after the date: nothing, or a separator, a time and an optional offset
IsTimePart(s) ==
    \/ s = <<>>
    \/ /\ Len(s) >= 3
       /\ LET t == Tail(s)
          IN  \/ IsTime(t)
              \/ /\ Len(t) > 6
                 /\ IsTime(SubSeq(t, 1, Len(t) - 6))
                 /\ IsOffset(SubSeq(t, Len(t) - 5, Len(t)))

\* datetime.fromisoformat(s): YYYY-MM-DD[*HH[:MM[:SS]][+HH:MM]]; the date fields,
\* or ok = FALSE where Python raises ValueError
fromisoformat(s) ==
    LET bad == [ok |-> FALSE, year |-> 0, month |-> 0, day |-> 0]
    IN  IF ~ (/\ Len(s) >= 10
              /\ AllDigits(SubSeq(s, 1, 4)) /\ s[5] = "-"
              /\ AllDigits(SubSeq(s, 6, 7)) /\ s[8] = "-"
              /\ AllDigits(SubSeq(s, 9, 10))
              /\ IsTimePart(SubSeq(s, 11, Len(s))))
        THEN bad
        ELSE LET y == IntOf(SubSeq(s, 1, 4))
                 m == IntOf(SubSeq(s, 6, 7))
                 d == IntOf(SubSeq(s, 9, 10))
             IN  IF y >= 1 /\ m \in 1..12 /\ d >= 1 /\ d <= DaysInMonth(y, m)
                 THEN [ok |-> TRUE, year |-> y, month |-> m, day |-> d]
                 ELSE bad

\* hijri_converter's Gregorian(y, m, d).to_hijri(): the library is outside the
\* repository; it is a pure function of the date, represented here by the
\* arithmetic Islamic calendar computed from the Julian day number
to_hijri(y, m, d) ==
    LET jd == ToOrdinal(y, m, d) + 1721425
        l0 == jd - 1948440 + 10632
        n  == (l0 - 1) \div 10631
        l1 == l0 - 10631 * n + 354
        j  == ((10985 - l1) \div 5316) * ((50 * l1) \div 17719)
              + (l1 \div 5670) * ((43 * l1) \div 15238)
        l2 == l1 - ((30 - j) \div 15) * ((17719 * j) \div 50)
                 - (j \div 16) * ((15238 * j) \div 43) + 29
        hm == (24 * l2) \div 709
        hd == l2 - ((709 * hm) \div 24)
        hy == 30 * n + j - 30
    IN  [year |-> hy, month |-> hm, day |-> hd]

\* the index into ARABIC_DAY_NAMES (0-based): Sunday=0, Monday=1, ...
arabic_day_index_bug(day_of_week) == day_of_week % 7

arabic_day_index(day_of_week) == (day_of_week + 1) % 7

\* convert_to_hijri(date_str): the tuple (hijri_date_str, arabic_day_name,
\* gregorian_date_str), or ValueError for whatever the body raises
convert_to_hijri(s) ==
    LET date_obj == fromisoformat(Replace(s, <<"Z">>, <<"+", "0", "0", ":", "0", "0">>))
    IN  IF ~ date_obj.ok
        THEN [raised |-> "ValueError", detail |-> <<"Invalid date format: ">> \o s]
        ELSE LET day_of_week == weekday(date_obj.year, date_obj.month, date_obj.day)
                 arabic_day_name == ARABIC_DAY_NAMES[arabic_day_index(day_of_week) + 1]
                 hijri == to_hijri(date_obj.year, date_obj.month, date_obj.day)
                 hijri_date_str ==
                     Format02d(hijri.day) \o <<"/">> \o Format02d(hijri.month)
                         \o <<"/">> \o Decimal(hijri.year)
                 gregorian_date_str ==
                     Format02d(date_obj.day) \o <<"/">> \o Format02d(date_obj.month)
                         \o <<"/">> \o Decimal(date_obj.year)
             IN  [raised |-> None,
                  value |-> <<hijri_date_str, arabic_day_name, gregorian_date_str>>]

(***************************************************************************)
(* The parts of the state a specification does not use stay at rest.       *)
(***************************************************************************)
DateIdle == date_str = <<>> /\ date_result = Pending

DocIdle == pd_args = Pending /\ pd_result = Pending

ReqIdle ==
    /\ data = <<>> /\ pc = <<>> /\ i = <<>> /\ docx_files = <<>> /\ pdf_files = <<>>
    /\ conversion_success = <<>> /\ temp_dir = <<>> /\ calls = <<>>
    /\ output_dir = <<>> /\ response = <<>> /\ body = <<>> /\ running = 0

(***************************************************************************)
(* SpecDate: convert_to_hijri applied to one date string.                  *)
(***************************************************************************)
FirstYear == 2023
NumYears == 2

\* "YYYY-MM-DD" written with the given numbers, valid as a date or not
FormatDate(y, m, d) ==
    Decimal(y) \o <<"-">> \o Format02d(m) \o <<"-">> \o Format02d(d)

NoonUTC == <<"T", "1", "2", ":", "0", "0", ":", "0", "0", "Z">>

OtherDateStrs ==
    { <<>>,
      <<"n", "o", "t", "-", "a", "-", "d", "a", "t", "e">>,
      <<"2", "0", "2", "4", "-", "1", "-", "1">>,
      <<"0", "1", "/", "0", "1", "/", "2", "0", "2", "4">>,
      FormatDate(FirstYear, 1, 1) \o NoonUTC,
      FormatDate(FirstYear, 12, 31) \o <<"T", "2", "3", ":", "5", "9">>,
      FormatDate(FirstYear, 6, 15) \o <<" ", "0", "0", ":", "0", "0", ":", "0", "0",
                                        "+", "0", "3", ":", "0", "0">>,
      FormatDate(FirstYear, 6, 15) \o <<"T", "2", "5", ":", "0", "0", ":", "0", "0">>,
      FormatDate(FirstYear, 2, 30) \o NoonUTC }

DateStrs ==
    { FormatDate(y, m, d) : y \in FirstYear..(FirstYear + NumYears - 1),
                            m \in 0..13, d \in 0..32 }
        \cup OtherDateStrs

InitDate ==
    /\ date_str \in DateStrs
    /\ date_result = Pending
    /\ DocIdle /\ ReqIdle

ConvertDate ==
    /\ date_result = Pending
    /\ date_result' = convert_to_hijri(date_str)
    /\ UNCHANGED <<date_str, docVars, reqVars>>

NextDate == ConvertDate

SpecDate == InitDate /\ [][NextDate]_vars

(***************************************************************************)
(* Claims about convert_to_hijri (SpecDate)                                *)
(***************************************************************************)
\* the date the parser reads from the date string of the state
ParsedDate == fromisoformat(Replace(date_str, <<"Z">>, <<"+", "0", "0", ":", "0", "0">>))

\* the ISO weekday (Monday = 1 .. Sunday = 7) by Zeller's congruence, which
\* does not go through the day count that date.weekday() uses
IsoWeekday(y, m, d) ==
    LET mm == IF m < 3 THEN m + 12 ELSE m
        yy == IF m < 3 THEN y - 1 ELSE y
        K  == yy % 100
        J  == yy \div 100
        h  == (d + ((13 * (mm + 1)) \div 5) + K + (K \div 4) + (J \div 4) + 5 * J) % 7
    IN  ((h + 5) % 7) + 1

\* the Arabic name of each ISO weekday, Monday first
ArabicNameOfIsoWeekday ==
    << <<"al-Ithnayn">>, <<"ath-Thulatha">>, <<"al-Arbia">>, <<"al-Khamis">>,
       <<"al-Jumua">>, <<"as-Sabt">>, <<"al-Ahad">> >>

DefaultFont == [name |-> None, size |-> None, bold |-> None]

NewRun(text) == [text |-> text, font |-> DefaultFont]

\* a cell as add_row() creates it: one paragraph without runs
EmptyCell == << [runs |-> <<>>, alignment |-> None] >>

RECURSIVE ConcatRuns(_)
ConcatRuns(runs) ==
    IF runs = <<>> THEN <<>> ELSE runs[1].text \o ConcatRuns(Tail(runs))

\* the getter of cell.text: the paragraphs' texts joined by a newline
RECURSIVE cell_text(_)
cell_text(cell) ==
    IF cell = <<>> THEN <<>>
    ELSE IF Len(cell) = 1 THEN ConcatRuns(cell[1].runs)
    ELSE ConcatRuns(cell[1].runs) \o <<"\n">> \o cell_text(Tail(cell))

\* the setter of cell.text: the content is cleared and one paragraph with one
\* run holding the text is added; run styling and alignment are gone
set_cell_text(text) == << [runs |-> <<NewRun(text)>>, alignment |-> None] >>

(***************************************************************************)
(* process_document: the replacements map                                  *)
(***************************************************************************)
KeyDay  == <<"(", "alyawm", ")">>
KeyD    == <<"[", "D", "]">>
KeyM    == <<"[", "M", "]">>
KeyY    == <<"[", "Y", "]">>
Keyd    == <<"[", "d", "]">>
Keym    == <<"[", "m", "]">>
Keyyyyy == <<"[", "y", "y", "y", "y", "]">>

\* the fragment of the label the style pass looks for: the label without its
\* first letter
LabelFragment == <<"lmwdh", " ", "hwyathm", " ", "balbyan">>

LabelHead == <<"alif">> \o LabelFragment \o <<" ", "almrfq", " ", "wEddhm", " ">>

KeyLabel == LabelHead \o <<"(", "ayn", ")">>

\* f"... ({num_people:02d}) <ballot box with x>"
LabelValue(num_people) ==
    LabelHead \o <<"(">> \o Format02d(num_people) \o <<")", " ", "ballot-x">>

KeyVisitor(k)     == <<"(", "alzayir">> \o Decimal(k) \o <<")">>
KeyId(k)          == <<"(", "alhuwiyah">> \o Decimal(k) \o <<")">>
KeyNationality(k) == <<"(", "aljinsiyah">> \o Decimal(k) \o <<")">>
KeyFirst          == <<"(", "awalhum", ")">>
KeyLast           == <<"(", "akhirhum", ")">>

\* the dict as the list of its (key, value) items in insertion order; the
\* visitor count is at least 1 here
visitor_items_swapped(people) ==
    LET num_people == Len(people)
    IN  IF num_people = 1
        THEN << <<KeyVisitor(1), people[1].name>>, <<KeyId(1), people[1].id_number>>,
                <<KeyNationality(1), people[1].nationality>>,
                <<KeyVisitor(2), <<>> >>, <<KeyId(2), <<>> >>,
                <<KeyNationality(2), <<>> >>,
                <<KeyFirst, <<>> >>, <<KeyLast, <<>> >> >>
        ELSE IF num_people = 2
        THEN << <<KeyVisitor(1), people[2].name>>, <<KeyId(1), people[2].id_number>>,
                <<KeyNationality(1), people[2].nationality>>,
                <<KeyVisitor(2), people[1].name>>, <<KeyId(2), people[1].id_number>>,
                <<KeyNationality(2), people[1].nationality>>,
                <<KeyFirst, <<>> >>, <<KeyLast, <<>> >> >>
        ELSE << <<KeyVisitor(1), <<>> >>, <<KeyId(1), <<>> >>,
                <<KeyNationality(1), <<>> >>,
                <<KeyVisitor(2), <<>> >>, <<KeyId(2), <<>> >>,
                <<KeyNationality(2), <<>> >>,
                <<KeyFirst, people[num_people].name>>, <<KeyLast, people[1].name>> >>

visitor_items(people) ==
    LET num_people == Len(people)
    IN  IF num_people = 1
        THEN << <<KeyVisitor(1), people[1].name>>, <<KeyId(1), people[1].id_number>>,
                <<KeyNationality(1), people[1].nationality>>,
                <<KeyVisitor(2), <<>> >>, <<KeyId(2), <<>> >>,
                <<KeyNationality(2), <<>> >>,
                <<KeyFirst, <<>> >>, <<KeyLast, <<>> >> >>
        ELSE IF num_people = 2
        THEN << <<KeyVisitor(1), people[1].name>>, <<KeyId(1), people[1].id_number>>,
                <<KeyNationality(1), people[1].nationality>>,
                <<KeyVisitor(2), people[2].name>>, <<KeyId(2), people[2].id_number>>,
                <<KeyNationality(2), people[2].nationality>>,
                <<KeyFirst, <<>> >>, <<KeyLast, <<>> >> >>
        ELSE << <<KeyVisitor(1), <<>> >>, <<KeyId(1), <<>> >>,
                <<KeyNationality(1), <<>> >>,
                <<KeyVisitor(2), <<>> >>, <<KeyId(2), <<>> >>,
                <<KeyNationality(2), <<>> >>,
                <<KeyFirst, people[1].name>>, <<KeyLast, people[num_people].name>> >>

replacements(date_info, people) ==
    LET hijri_date_str == date_info[1]
        day == date_info[2]
        gregorian_date_str == date_info[3]
    IN  << <<KeyDay, day>>,
           <<KeyD, Split(hijri_date_str, "/")[1]>>,
           <<KeyM, Split(hijri_date_str, "/")[2]>>,
           <<KeyY, Split(hijri_date_str, "/")[3]>>,
           <<Keyd, Split(gregorian_date_str, "/")[1]>>,
           <<Keym, Split(gregorian_date_str, "/")[2]>>,
           <<Keyyyyy, Split(gregorian_date_str, "/")[3]>>,
           <<KeyLabel, LabelValue(Len(people))>> >>
        \o visitor_items(people)

\* replacements.get(key): the value, or None for a key the dict lacks
Get(items, key) ==
    IF \E k \in 1..Len(items) : items[k][1] = key
    THEN items[CHOOSE k \in 1..Len(items) : items[k][1] = key][2]
    ELSE None

(***************************************************************************)
(* process_document: substitution, style pass, overflow table, save        *)
(***************************************************************************)
\* a mutant of the substitution: the loop over the keys ends at the first key
\* the cell holds
RECURSIVE substitute_cell_once(_, _)
substitute_cell_once(cell, items) ==
    IF items = <<>> THEN cell
    ELSE IF Contains(cell_text(cell), items[1][1])
         THEN set_cell_text(Replace(cell_text(cell), items[1][1], items[1][2]))
         ELSE substitute_cell_once(cell, Tail(items))

\* main.py:192-194 for one cell: each key in insertion order, on the text the
\* earlier keys left
RECURSIVE substitute_cell(_, _)
substitute_cell(cell, items) ==
    IF items = <<>> THEN cell
    ELSE LET key == items[1][1]
             value == items[1][2]
         IN  substitute_cell(
                 IF Contains(cell_text(cell), key)
                 THEN set_cell_text(Replace(cell_text(cell), key, value))
                 ELSE cell,
                 Tail(items))

DateValues(items) ==
    {Get(items, KeyD), Get(items, KeyM), Get(items, KeyY),
     Get(items, Keyd), Get(items, Keym), Get(items, Keyyyyy)}

VisitorValues(people, day) ==
    {people[k].name : k \in 1..Len(people)}
        \cup {people[k].nationality : k \in 1..Len(people)}
        \cup {people[k].id_number : k \in 1..Len(people)}
        \cup {day}

\* the branch of main.py:199-223 a run's stripped text takes
category(text, items, people, day) ==
    IF Contains(text, LabelFragment) THEN 1
    ELSE IF text \in DateValues(items) THEN 2
    ELSE IF text \in VisitorValues(people, day) THEN 3
    ELSE 4

\* the run after its branch
style_run(run, items, people, day) ==
    LET c == category(Strip(run.text), items, people, day)
    IN  [run EXCEPT !.font =
            IF c = 1 THEN [name |-> "Times New Roman (Headings CS)", size |-> 15,
                           bold |-> FALSE]
            ELSE IF c = 2 THEN [name |-> "Arial (Body CS)", size |-> 8, bold |-> TRUE]
            ELSE IF c = 3 THEN [name |-> run.font.name, size |-> 15, bold |-> TRUE]
            ELSE [name |-> "Times New Roman (Headings CS)", size |-> 15,
                  bold |-> TRUE]]

\* the paragraph's alignment after the branch of one run
style_alignment(alignment, run, items, people, day) ==
    LET text == Strip(run.text)
        c == category(text, items, people, day)
    IN  IF c = 1 THEN "RIGHT"
        ELSE IF c = 2
        THEN IF text \in {Get(items, Keyd), Get(items, KeyD)} THEN "CENTER"
             ELSE IF text \in {Get(items, KeyM), Get(items, Keym)} THEN "CENTER"
             ELSE IF text \in {Get(items, KeyY), Get(items, Keyyyyy)} THEN "RIGHT"
             ELSE alignment
        ELSE IF c = 3 THEN "RIGHT"
        ELSE alignment

\* the runs of a paragraph in order: each run restyled, the alignment that of
\* the last run that set one
RECURSIVE alignment_after(_, _, _, _, _)
alignment_after(alignment, runs, items, people, day) ==
    IF runs = <<>> THEN alignment
    ELSE alignment_after(style_alignment(alignment, runs[1], items, people, day),
                         Tail(runs), items, people, day)

style_paragraph(p, items, people, day) ==
    [runs |-> [k \in 1..Len(p.runs) |-> style_run(p.runs[k], items, people, day)],
     alignment |-> alignment_after(p.alignment, p.runs, items, people, day)]

style_cell(cell, items, people, day) ==
    [k \in 1..Len(cell) |-> style_paragraph(cell[k], items, people, day)]

\* main.py:189-223: every cell of every row of every table
fill_tables(tables, items, people, day) ==
    [t \in 1..Len(tables) |->
        [tables[t] EXCEPT !.rows =
            [r \in 1..Len(tables[t].rows) |->
                [c \in 1..Len(tables[t].rows[r]) |->
                    style_cell(substitute_cell(tables[t].rows[r][c], items),
                               items, people, day)]]]]

\* set_cell_style: the text stripped and set again, the one run Arial 15 bold,
\* the paragraph centered
set_cell_style(cell) ==
    << [runs |-> << [text |-> Strip(cell_text(cell)),
                     font |-> [name |-> "Arial (Body CS)", size |-> 15,
                               bold |-> TRUE]] >>,
        alignment |-> "CENTER"] >>

\* the row a visitor's data goes to: cells 0, 1, 2 written, the others kept
write_row(row, person) ==
    [c \in 1..Len(row) |->
        IF c = 1 THEN set_cell_style(set_cell_text(person.id_number))
        ELSE IF c = 2 THEN set_cell_style(set_cell_text(person.nationality))
        ELSE IF c = 3 THEN set_cell_style(set_cell_text(person.name))
        ELSE row[c]]

\* table.add_row(): a row of empty cells, one for each column of the table
add_row(table) ==
    [table EXCEPT !.rows = Append(table.rows, [c \in 1..table.cols |-> EmptyCell])]

\* a mutant of the row choice: the last existing row counts as missing
reuse_row_bug(i_, table) == i_ <= Len(table.rows) - 2

\* main.py:233, with i counting from 1: row i exists (row 0 is never taken)
reuse_row(i_, table) == i_ <= Len(table.rows) - 1

\* main.py:231-246 from visitor k on: the table, or raised = "IndexError" when
\* the row has no cell 0, 1 or 2
RECURSIVE write_overflow(_, _, _)
write_overflow(table, people, k) ==
    IF k > Len(people) THEN [raised |-> None, table |-> table]
    ELSE LET grown == IF reuse_row(k, table) THEN table ELSE add_row(table)
             \* table.rows[i] counts from 0; an added row is the last one
             at == IF reuse_row(k, table) THEN k + 1 ELSE Len(grown.rows)
         IN  IF Len(grown.rows[at]) < 3
             THEN [raised |-> "IndexError", table |-> grown]
             ELSE write_overflow(
                      [grown EXCEPT !.rows[at] = write_row(grown.rows[at], people[k])],
                      people, k + 1)

\* embed_fonts: three settings appended; on a settings element without
\* children the function takes its except branch and changes nothing
embed_fonts(doc) ==
    IF doc.settings = <<>> THEN doc
    ELSE [doc EXCEPT !.settings =
             doc.settings \o <<"w:embedSystemFonts", "w:embedTrueTypeFonts",
                               "w:saveSubsetFonts">>]

\* process_document(date_info, people, template_file, output_file): what is in
\* output_file afterwards, and the exception the call raised if any.  The
\* template is copied first, so a call that raises leaves the copy behind.
process_document(date_info, people, template) ==
    LET num_people == Len(people)
        day == date_info[2]
    IN  IF num_people = 0
        THEN [raised |-> "IndexError", file |-> template]
        ELSE LET items == replacements(date_info, people)
                 filled == fill_tables(template.tables, items, people, day)
             IN  IF num_people > 2
                 THEN IF Len(filled) < 2
                      THEN [raised |-> "IndexError", file |-> template]
                      ELSE LET w == write_overflow(filled[2], people, 1)
                           IN  IF w.raised # None
                               THEN [raised |-> w.raised, file |-> template]
                               ELSE [raised |-> None,
                                     file |-> embed_fonts(
                                         [template EXCEPT
                                             !.tables = [filled EXCEPT ![2] = w.table]])]
                 ELSE [raised |-> None,
                       file |-> embed_fonts([template EXCEPT !.tables = filled])]

(***************************************************************************)
(* SpecDoc: process_document applied to one template, visitor list and     *)
(* date.                                                                   *)
(***************************************************************************)
MaxPeople == 4
MaxRows == 3
ManyPeople == 100

Persons ==
    << [name |-> <<"Ali">>, nationality |-> <<"SA">>, id_number |-> <<"1", "0", "1">>],
       [name |-> <<"Omar">>, nationality |-> <<"EG">>, id_number |-> <<"2", "0", "2">>],
       [name |-> <<"Zaid", " ", "Ali">>, nationality |-> <<"SA">>,
        id_number |-> <<"3", "0", "3">>] >>

RECURSIVE SeqsUpTo(_, _)
SeqsUpTo(S, n) ==
    IF n = 0 THEN {<<>>}
    ELSE LET shorter == SeqsUpTo(S, n - 1)
         IN  shorter \cup {Append(s, x) : s \in {t \in shorter : Len(t) = n - 1}, x \in S}

\* a long visitor list: the persons in rotation
Crowd(n) == [k \in 1..n |-> Persons[(k % Len(Persons)) + 1]]

PeopleLists ==
    SeqsUpTo({Persons[k] : k \in 1..Len(Persons)}, MaxPeople)
        \cup {Crowd(ManyPeople - 1), Crowd(ManyPeople)}

\* a cell of the template: one paragraph, one run, the template's own styling
TemplateCell(text) ==
    << [runs |-> << [text |-> text,
                     font |-> [name |-> "Calibri", size |-> 11, bold |-> FALSE]] >>,
        alignment |-> "LEFT"] >>

\* the form: the date fields, the label, the two visitor slots, the
\* first-to-last line and one more cell
FormTable(cell) ==
    [cols |-> 7,
     rows |->
        << << TemplateCell(KeyDay), TemplateCell(KeyD), TemplateCell(KeyM),
              TemplateCell(KeyY), TemplateCell(Keyd), TemplateCell(Keym),
              TemplateCell(Keyyyyy) >>,
           << TemplateCell(KeyLabel) >>,
           << TemplateCell(KeyVisitor(1)), TemplateCell(KeyNationality(1)),
              TemplateCell(KeyId(1)) >>,
           << TemplateCell(KeyVisitor(2)), TemplateCell(KeyNationality(2)),
              TemplateCell(KeyId(2)) >>,
           << TemplateCell(<<"min", " ">> \o KeyFirst \o <<" ", "ila", " ">> \o KeyLast),
              cell >> >>]

\* the visitor table: n rows in all, the first one the header
VisitorTable(n) ==
    [cols |-> 3,
     rows |-> [r \in 1..n |->
                  IF r = 1
                  THEN << TemplateCell(<<"raqm", " ", "alhuwiyah">>),
                          TemplateCell(<<"aljinsiyah">>), TemplateCell(<<"alism">>) >>
                  ELSE << EmptyCell, EmptyCell, EmptyCell >>]]

MoreCells ==
    { TemplateCell(<<"mulahazat">>),
      TemplateCell(<<" ">> \o KeyVisitor(1) \o <<" ", "wa", " ">> \o KeyVisitor(1)),
      << [runs |-> <<>>, alignment |-> "CENTER"],
         [runs |-> << NewRun(KeyD \o <<"/">> \o KeyM), NewRun(<<"/">> \o KeyY) >>,
          alignment |-> None] >> }

Templates ==
    { [tables |-> <<FormTable(cell), VisitorTable(n)>>, settings |-> s] :
          cell \in MoreCells, n \in 0..MaxRows, s \in {<<>>, <<"w:zoom">>} }

\* the template of the service, GETPASS.docx
GETPASS ==
    [tables |-> <<FormTable(TemplateCell(<<"mulahazat">>)), VisitorTable(2)>>,
     settings |-> <<"w:zoom">>]

DocDates == {FormatDate(2024, 1, 1), FormatDate(2024, 11, 10)}

InitDoc ==
    /\ pd_args \in [date_info : {convert_to_hijri(d).value : d \in DocDates},
                    people : PeopleLists,
                    template : Templates]
    /\ pd_result = Pending
    /\ DateIdle /\ ReqIdle

ProcessDocument ==
    /\ pd_result = Pending
    /\ pd_result' = process_document(pd_args.date_info, pd_args.people, pd_args.template)
    /\ UNCHANGED <<pd_args, dateVars, reqVars>>

NextDoc == ProcessDocument

SpecDoc == InitDoc /\ [][NextDoc]_vars

(***************************************************************************)
(* Claims about process_document (SpecDoc)                                 *)
(***************************************************************************)
ArgPeople == pd_args.people

ArgItems == replacements(pd_args.date_info, pd_args.people)

\* the keys of the map, whatever the visitor count
FixedKeys ==
    {KeyDay, KeyD, KeyM, KeyY, Keyd, Keym, Keyyyyy, KeyLabel,
     KeyVisitor(1), KeyId(1), KeyNationality(1),
     KeyVisitor(2), KeyId(2), KeyNationality(2), KeyFirst, KeyLast}

\* the count as the label value shows it, between the parentheses
LabelCount ==
    LET v == Get(ArgItems, KeyLabel)
    IN  SubSeq(v, Len(LabelHead) + 2, Len(v) - 3)

LabelFraming ==
    LET v == Get(ArgItems, KeyLabel)
    IN  /\ StartsWith(v, LabelHead \o <<"(">>)
        /\ SubSeq(v, Len(v) - 2, Len(v)) = <<")", " ", "ballot-x">>

\* what the claim says of the visitor keys, by visitor count
VisitorSlotsAsClaimed ==
    LET N == Len(ArgPeople)
        V(key) == Get(ArgItems, key)
        Slot(k) == <<V(KeyVisitor(k)), V(KeyId(k)), V(KeyNationality(k))>>
        Of(person) == <<person.name, person.id_number, person.nationality>>
        Blank == << <<>>, <<>>, <<>> >>
    IN  /\ {ArgItems[k][1] : k \in 1..Len(ArgItems)} = FixedKeys
        /\ Len(ArgItems) = Cardinality(FixedKeys)
        /\ N = 1 => /\ Slot(1) = Of(ArgPeople[1]) /\ Slot(2) = Blank
                    /\ V(KeyFirst) = <<>> /\ V(KeyLast) = <<>>
        /\ N = 2 => /\ Slot(1) = Of(ArgPeople[1]) /\ Slot(2) = Of(ArgPeople[2])
                    /\ V(KeyFirst) = <<>> /\ V(KeyLast) = <<>>
        /\ N > 2 => /\ Slot(1) = Blank /\ Slot(2) = Blank
                    /\ V(KeyFirst) = ArgPeople[1].name
                    /\ V(KeyLast) = ArgPeople[N].name

\* C6 as stated: for every visitor list of length N >= 1 the map has the fixed
\* key set, the slot values the three cases prescribe, and a label that
\* carries N as a two-digit zero-padded number.
C6_Original ==
    (pd_result # Pending /\ Len(ArgPeople) >= 1) =>
        /\ VisitorSlotsAsClaimed
        /\ LabelFraming
        /\ Len(LabelCount) = 2 /\ AllDigits(LabelCount)
        /\ IntOf(LabelCount) = Len(ArgPeople)

\* C6 as amended: the key set and the slot values are as stated; the label
\* carries N in decimal, zero-padded to at least two digits: exactly two
\* digits when N < 100, the plain decimal number of N from 100 on.
C6_ReplacementsMap ==
    (pd_result # Pending /\ Len(ArgPeople) >= 1) =>
        /\ VisitorSlotsAsClaimed
        /\ LabelFraming
        /\ AllDigits(LabelCount)
        /\ IntOf(LabelCount) = Len(ArgPeople)
        /\ Len(LabelCount) >= 2
        /\ (Len(ArgPeople) < 100 <=> Len(LabelCount) = 2)
        /\ (Len(ArgPeople) < 10 <=> LabelCount[1] = "0")

\* C6 witness: a list of a hundred visitors or more has been processed, the
\* first and last name placeholders are filled and the label shows three digits
C6_Witness ==
    /\ pd_result # Pending
    /\ pd_result.raised = None
    /\ Len(ArgPeople) >= 100
    /\ Get(ArgItems, KeyFirst) = ArgPeople[1].name
    /\ Get(ArgItems, KeyLast) = ArgPeople[Len(ArgPeople)].name
    /\ Len(LabelCount) = 3

\* the rows of the template's second table, and of the saved document's
RowsBefore == Len(pd_args.template.tables[2].rows)

RowsAfter == pd_result.file.tables[2].rows

OverflowDone ==
    /\ pd_result # Pending
    /\ pd_result.raised = None
    /\ Len(ArgPeople) > 2

\* the three written cells of a row show this visitor
RowShows(row, person) ==
    /\ Len(row) >= 3
    /\ cell_text(row[1]) = Strip(person.id_number)
    /\ cell_text(row[2]) = Strip(person.nationality)
    /\ cell_text(row[3]) = Strip(person.name)

Reqs == {1, 2}

\* a directory that does not exist (yet, or any more)
NoDir == [exists |-> FALSE, files |-> <<>>]

\* os.makedirs(output_dir, exist_ok=True)
makedirs(dir) == [dir EXCEPT !.exists = TRUE]

\* a file created or overwritten
write_file(dir, name, content) ==
    [dir EXCEPT !.files = (name :> content) @@ dir.files]

\* os.path.join(temp_dir, f"getpass_{i}.docx") and its pdf twin: the
\* directory of the request and the base name
docx_path(r, k) == [dir |-> <<"tmp", r>>, name |-> <<"getpass_">> \o Decimal(k) \o <<".docx">>]

pdf_path(r, k) == [dir |-> <<"tmp", r>>, name |-> <<"getpass_">> \o Decimal(k) \o <<".pdf">>]

\* what unoconv renders from a Word file
pdf_of(docx) == [kind |-> "pdf", producer |-> "unoconv", pages |-> <<docx.document>>]

RECURSIVE all_pages(_, _)
all_pages(paths, files) ==
    IF paths = <<>> THEN <<>>
    ELSE files[paths[1].name].pages \o all_pages(Tail(paths), files)

RECURSIVE Reverse(_)
Reverse(s) == IF s = <<>> THEN <<>> ELSE Reverse(Tail(s)) \o <<s[1]>>

\* a mutant of merge_pdfs: the files appended last to first
merge_pdfs_reversed(pdf_files_, files) ==
    [kind |-> "pdf", producer |-> "PyPDF2", pages |-> all_pages(Reverse(pdf_files_), files)]

\* merge_pdfs, when it succeeds: every file appended in list order
merge_pdfs(pdf_files_, files) ==
    [kind |-> "pdf", producer |-> "PyPDF2", pages |-> all_pages(pdf_files_, files)]

\* a mutant of create_docx_zip: the first document is left out
create_docx_zip_short(docx_files_, files) ==
    [kind |-> "zip",
     entries |-> [k \in 1..(Len(docx_files_) - 1) |->
                     [name |-> docx_files_[k + 1].name,
                      content |-> files[docx_files_[k + 1].name]]]]

\* create_docx_zip, when it succeeds: one entry for each file, under its base name
create_docx_zip(docx_files_, files) ==
    [kind |-> "zip",
     entries |-> [k \in 1..Len(docx_files_) |->
                     [name |-> docx_files_[k].name,
                      content |-> files[docx_files_[k].name]]]]

\* a file an exception cut short while it was being written
Truncated == [kind |-> "truncated"]

\* how a call that writes a file can end
Outcomes == {"ok", "raised", "raised while writing"}

FileResponse(path, filename, media_type) ==
    [status_code |-> 200, path |-> path, filename |-> filename,
     media_type |-> media_type, detail |-> <<>>]

HTTPException(status_code, detail) ==
    [status_code |-> status_code, path |-> None, filename |-> None,
     media_type |-> None, detail |-> detail]

\* main.py:538-540: whatever Exception leaves the body, an HTTPException
\* included, is answered with status 500
internal_server_error(e) == HTTPException(500, <<"Internal Server Error: ", e>>)

\* main.py:483-485
invalid_date_format(e) ==
    [exception |-> "HTTPException", status_code |-> 400,
     detail |-> <<"Invalid date format: ">> \o e.detail]

\* main.py:536
failed_to_generate ==
    [exception |-> "HTTPException", status_code |-> 500,
     detail |-> <<"Failed to generate documents">>]

PdfType == "application/pdf"
DocxType == "application/vnd.openxmlformats-officedocument.wordprocessingml.document"
ZipType == "application/zip"

\* the value the flag takes where the merge has failed, mutated
flag_after_merge_failure_kept == TRUE

\* main.py:502
flag_after_merge_failure == FALSE

\* main.py:487-536, after the loop: the response returned (ok), or else the
\* exception raised, and the output directory the step leaves; merging and
\* zipping end as the outcomes say
after_loop(docx_files_, pdf_files_, conversion_success_, files, out, merged, zipped) ==
    LET out1 == makedirs(out)
        many == conversion_success_ /\ Len(pdf_files_) > 1
        one  == ~many /\ conversion_success_ /\ Len(pdf_files_) = 1
        \* the flag after the first if / elif
        flag == IF many /\ merged # "ok" THEN flag_after_merge_failure
                ELSE conversion_success_
        out2 == IF many /\ merged = "raised while writing"
                THEN write_file(out1, "getpass.pdf", Truncated)
                ELSE out1
        zip  == ~flag /\ Len(docx_files_) # 1
    IN  IF many /\ merged = "ok"
        THEN [returned |-> FileResponse("getpass.pdf", "getpass.pdf", PdfType),
              ok |-> TRUE, raised |-> failed_to_generate, flag |-> flag,
              out |-> write_file(out1, "getpass.pdf", merge_pdfs(pdf_files_, files))]
        ELSE IF one
        THEN [returned |-> FileResponse("getpass.pdf", "getpass.pdf", PdfType),
              ok |-> TRUE, raised |-> failed_to_generate, flag |-> flag,
              out |-> write_file(out1, "getpass.pdf", files[pdf_files_[1].name])]
        ELSE IF ~flag /\ Len(docx_files_) = 1
        THEN [returned |-> FileResponse("getpass.docx", "getpass.docx", DocxType),
              ok |-> TRUE, raised |-> failed_to_generate, flag |-> flag,
              out |-> write_file(out2, "getpass.docx", files[docx_files_[1].name])]
        ELSE IF zip /\ zipped = "ok"
        THEN [returned |-> FileResponse("getpass_documents.zip",
                                        "getpass_documents.zip", ZipType),
              ok |-> TRUE, raised |-> failed_to_generate, flag |-> flag,
              out |-> write_file(out2, "getpass_documents.zip",
                                 create_docx_zip(docx_files_, files))]
        ELSE [returned |-> HTTPException(500, failed_to_generate.detail), ok |-> FALSE,
              raised |-> failed_to_generate, flag |-> flag,
              out |-> IF zip /\ zipped = "raised while writing"
                      THEN write_file(out2, "getpass_documents.zip", Truncated)
                      ELSE out2]

(***************************************************************************)
(* The requests the specifications send                                    *)
(***************************************************************************)
MaxDates == 3
MaxVisitors == 1
MaxConcDates == 2

Monday == FormatDate(2024, 1, 1)
Sunday == FormatDate(2024, 11, 10)
NotADate == <<"n", "o", "t", "-", "a", "-", "d", "a", "t", "e">>

RequestDates == { [date |-> Monday], [date |-> Sunday], [date |-> NotADate] }

\* what an earlier request left in the output directory, which is never cleaned
StaleDocument == [tables |-> <<>>, settings |-> <<>>]

StaleOutput ==
    [exists |-> TRUE,
     files |-> ("getpass.pdf" :>
                    [kind |-> "pdf", producer |-> "PyPDF2", pages |-> <<StaleDocument>>])
               @@ ("getpass.docx" :> [kind |-> "docx", document |-> StaleDocument])
               @@ ("getpass_documents.zip" :> [kind |-> "zip", entries |-> <<>>])]

InitialOutputs == {NoDir, StaleOutput}

NoRequest == [people |-> <<>>, dates |-> <<>>]

\* the visitor lists of the requests
RequestPeople == SeqsUpTo({Persons[1]}, MaxVisitors) \cup {<<Persons[1]>>, <<Persons[2]>>}

\* convert_to_hijri and process_document are pure: their results for the
\* dates and visitor lists of the requests, computed once
Converted == [e \in RequestDates |-> convert_to_hijri(e.date)]

\* a mutant of the fill: an empty visitor list raises nothing and the copy
\* of the template is saved as it is
Filled_unguarded ==
    [e \in {x \in RequestDates : Converted[x].raised = None}, people \in RequestPeople |->
        IF people = <<>>
        THEN [raised |-> None, file |-> embed_fonts(GETPASS)]
        ELSE process_document(Converted[e].value, people, GETPASS)]

Filled ==
    [e \in {x \in RequestDates : Converted[x].raised = None}, people \in RequestPeople |->
        process_document(Converted[e].value, people, GETPASS)]

(***************************************************************************)
(* generate_getpass: the handler, step by step.  The handler is an async   *)
(* function without an await, so it holds the event loop from its first    *)
(* line to its return; the file of a FileResponse is read and sent after   *)
(* the handler has returned.                                               *)
(***************************************************************************)
date_entry(r) == data[r].dates[i[r] + 1]

InLoop(r) == pc[r] = "loop" /\ running = r /\ i[r] < Len(data[r].dates)

\* the handler ends with an exception: the TemporaryDirectory is removed and
\* the outer except answers
Raise(r, e) ==
    /\ pc' = [pc EXCEPT ![r] = "done"]
    /\ response' = [response EXCEPT ![r] = internal_server_error(e)]
    /\ body' = [body EXCEPT ![r] = [kind |-> "json",
                                    detail |-> internal_server_error(e).detail]]
    /\ temp_dir' = [temp_dir EXCEPT ![r] = NoDir]
    /\ running' = 0

\* main.py:455-461
BeginRequest(r) ==
    /\ pc[r] = "received"
    /\ running = 0
    /\ running' = r
    /\ pc' = [pc EXCEPT ![r] = "loop"]
    /\ temp_dir' = [temp_dir EXCEPT ![r] = makedirs(NoDir)]
    /\ docx_files' = [docx_files EXCEPT ![r] = <<>>]
    /\ pdf_files' = [pdf_files EXCEPT ![r] = <<>>]
    /\ conversion_success' = [conversion_success EXCEPT ![r] = TRUE]
    /\ i' = [i EXCEPT ![r] = 0]
    /\ UNCHANGED <<data, calls, output_dir, response, body, dateVars, docVars>>

\* a mutant of InvalidDate: the date is skipped and the loop goes on
InvalidDate_skipping(r) ==
    /\ InLoop(r)
    /\ Converted[date_entry(r)].raised # None
    /\ i' = [i EXCEPT ![r] = @ + 1]
    /\ UNCHANGED <<data, pc, docx_files, pdf_files, conversion_success, temp_dir,
                   calls, output_dir, response, body, running, dateVars, docVars>>

\* main.py:467 raising, 483-485: the ValueError becomes an HTTPException(400)
\* raised inside the outer try
InvalidDate(r) ==
    /\ InLoop(r)
    /\ Converted[date_entry(r)].raised # None
    /\ Raise(r, invalid_date_format(Converted[date_entry(r)]))
    /\ UNCHANGED <<data, i, docx_files, pdf_files, conversion_success, calls,
                   output_dir, dateVars, docVars>>

\* main.py:473 raising: process_document's exception is no ValueError
FillRaises(r) ==
    /\ InLoop(r)
    /\ Converted[date_entry(r)].raised = None
    /\ LET filled == Filled[date_entry(r), data[r].people]
       IN  /\ filled.raised # None
           /\ Raise(r, [exception |-> filled.raised])
    /\ UNCHANGED <<data, i, docx_files, pdf_files, conversion_success, calls,
                   output_dir, dateVars, docVars>>

\* the flag after a conversion, mutated: the outcome of the last conversion
flag_after_conversion_last(flag, converted) == converted

\* main.py:477-480: a failure clears the flag, a success leaves it
flag_after_conversion(flag, converted) == IF converted THEN flag ELSE FALSE

\* main.py:467-481 for one date: the document is filled, listed and handed to
\* convert_to_pdf, which returns True (the PDF is there) or False
FillAndConvert(r) ==
    /\ InLoop(r)
    /\ Converted[date_entry(r)].raised = None
    /\ LET filled == Filled[date_entry(r), data[r].people]
           docx_file == docx_path(r, i[r])
           pdf_file == pdf_path(r, i[r])
           docx == [kind |-> "docx", document |-> filled.file]
       IN  /\ filled.raised = None
           /\ \E converted \in BOOLEAN :
                 /\ temp_dir' = [temp_dir EXCEPT ![r] =
                        IF converted
                        THEN write_file(write_file(@, docx_file.name, docx),
                                        pdf_file.name, pdf_of(docx))
                        ELSE write_file(@, docx_file.name, docx)]
                 /\ docx_files' = [docx_files EXCEPT ![r] = Append(@, docx_file)]
                 /\ pdf_files' = [pdf_files EXCEPT ![r] =
                        IF converted THEN Append(@, pdf_file) ELSE @]
                 /\ conversion_success' = [conversion_success EXCEPT ![r] =
                        flag_after_conversion(@, converted)]
                 /\ calls' = [calls EXCEPT ![r] =
                        Append(@, [fn |-> "convert_to_pdf", arg |-> docx_file,
                                   returned |-> converted])]
    /\ i' = [i EXCEPT ![r] = @ + 1]
    /\ UNCHANGED <<data, pc, output_dir, response, body, running, dateVars, docVars>>

\* the calls main.py:494 and 528 make, with what they returned
calls_after_loop(docx_files_, pdf_files_, conversion_success_, merged, zipped) ==
    LET many == conversion_success_ /\ Len(pdf_files_) > 1
        flag == IF many /\ merged # "ok" THEN flag_after_merge_failure
                ELSE conversion_success_
    IN  (IF many
         THEN << [fn |-> "merge_pdfs", arg |-> pdf_files_, returned |-> merged = "ok"] >>
         ELSE <<>>)
        \o (IF ~(many /\ merged = "ok") /\ ~flag /\ Len(docx_files_) # 1
            THEN << [fn |-> "create_docx_zip", arg |-> docx_files_,
                     returned |-> zipped = "ok"] >>
            ELSE <<>>)

\* main.py:487-536 and the way out of the handler
AfterLoop(r) ==
    /\ pc[r] = "loop" /\ running = r /\ i[r] = Len(data[r].dates)
    /\ \E merged \in Outcomes, zipped \in Outcomes :
          LET a == after_loop(docx_files[r], pdf_files[r], conversion_success[r],
                              temp_dir[r].files, output_dir, merged, zipped)
          IN  /\ output_dir' = a.out
              /\ conversion_success' = [conversion_success EXCEPT ![r] = a.flag]
              /\ calls' = [calls EXCEPT ![r] =
                     @ \o calls_after_loop(docx_files[r], pdf_files[r],
                                           conversion_success[r], merged, zipped)]
              /\ IF a.ok
                 THEN /\ pc' = [pc EXCEPT ![r] = "returned"]
                      /\ response' = [response EXCEPT ![r] = a.returned]
                      /\ temp_dir' = [temp_dir EXCEPT ![r] = NoDir]
                      /\ running' = 0
                      /\ UNCHANGED body
                 ELSE Raise(r, a.raised)
    /\ UNCHANGED <<data, i, docx_files, pdf_files, dateVars, docVars>>

\* the FileResponse is sent: the file at its path is read when the event loop
\* gets to it, which is after the handler returned and between handlers
SendFile(r) ==
    /\ pc[r] = "returned"
    /\ running = 0
    /\ body' = [body EXCEPT ![r] = output_dir.files[response[r].path]]
    /\ pc' = [pc EXCEPT ![r] = "done"]
    /\ UNCHANGED <<data, i, docx_files, pdf_files, conversion_success, temp_dir,
                   calls, output_dir, response, running, dateVars, docVars>>

Next ==
    \E r \in Reqs :
        \/ BeginRequest(r)
        \/ InvalidDate(r)
        \/ FillRaises(r)
        \/ FillAndConvert(r)
        \/ AfterLoop(r)
        \/ SendFile(r)

(***************************************************************************)
(* Spec: one request from its arrival to the last byte of its response.    *)
(* SpecConc: two requests on the same server.                              *)
(***************************************************************************)
InitLocals ==
    /\ i = [r \in Reqs |-> 0]
    /\ docx_files = [r \in Reqs |-> <<>>]
    /\ pdf_files = [r \in Reqs |-> <<>>]
    /\ conversion_success = [r \in Reqs |-> TRUE]
    /\ temp_dir = [r \in Reqs |-> NoDir]
    /\ calls = [r \in Reqs |-> <<>>]
    /\ response = [r \in Reqs |-> Pending]
    /\ body = [r \in Reqs |-> Pending]
    /\ running = 0

Init ==
    /\ \E people \in SeqsUpTo({Persons[1]}, MaxVisitors),
          dates \in SeqsUpTo(RequestDates, MaxDates) :
          data = [r \in Reqs |-> IF r = 1 THEN [people |-> people, dates |-> dates]
                                 ELSE NoRequest]
    /\ pc = [r \in Reqs |-> IF r = 1 THEN "received" ELSE "absent"]
    /\ output_dir \in InitialOutputs
    /\ InitLocals
    /\ DateIdle /\ DocIdle

Spec == Init /\ [][Next]_vars

\* two requests, each with its own visitor (the second may come without one)
\* and one date or more
InitConc ==
    /\ \E d1, d2 \in SeqsUpTo(RequestDates, MaxConcDates) \ {<<>>},
          p2 \in {<<>>, <<Persons[2]>>} :
          data = [r \in Reqs |-> IF r = 1 THEN [people |-> <<Persons[1]>>, dates |-> d1]
                                 ELSE [people |-> p2, dates |-> d2]]
    /\ pc = [r \in Reqs |-> "received"]
    /\ output_dir = NoDir
    /\ InitLocals
    /\ DateIdle /\ DocIdle

SpecConc == InitConc /\ [][Next]_vars

(***************************************************************************)
(* Claims about generate_getpass (Spec, SpecConc)                          *)
(***************************************************************************)
Dates(r) == data[r].dates

Done(r) == pc[r] = "done"

Parses(e) == Converted[e].raised = None

HasBadDate(r) == \E k \in 1..Len(Dates(r)) : ~Parses(Dates(r)[k])

\* the position of the first date that does not parse
FirstBadDate(r) ==
    CHOOSE k \in 1..Len(Dates(r)) :
        ~Parses(Dates(r)[k]) /\ \A j \in 1..(k - 1) : Parses(Dates(r)[j])

\* the Word file the request's visitors and k-th date give
OwnDocx(r, k) == [kind |-> "docx", document |-> Filled[Dates(r)[k], data[r].people].file]

\* every date has parsed and been filled
AllFilled(r) == Len(Dates(r)) >= 1 /\ Len(docx_files[r]) = Len(Dates(r))

\* the k-th call of the handler was convert_to_pdf
Conversion(r, k) == k <= Len(calls[r]) /\ calls[r][k].fn = "convert_to_pdf"

AllConverted(r) ==
    /\ AllFilled(r)
    /\ \A k \in 1..Len(Dates(r)) : Conversion(r, k) /\ calls[r][k].returned

SomeNotConverted(r) ==
    /\ AllFilled(r)
    /\ \E k \in 1..Len(Dates(r)) : Conversion(r, k) /\ ~calls[r][k].returned

\* the call the handler made after the loop's calls, at position n (1 or 2)
LaterCall(r, n) == calls[r][Len(Dates(r)) + n]

Called(r, n, fn) ==
    /\ Len(calls[r]) >= Len(Dates(r)) + n
    /\ LaterCall(r, n).fn = fn

IsErrorResponse(r, status) ==
    /\ response[r].status_code = status
    /\ response[r].path = None
    /\ response[r].detail # <<>>
    /\ body[r] = [kind |-> "json", detail |-> response[r].detail]

\* the ZIP of the request's Word files: one entry for each date, in order,
\* under the file's base name
IsOwnZip(r, zip) ==
    /\ zip.kind = "zip"
    /\ Len(zip.entries) = Len(Dates(r))
    /\ \A k \in 1..Len(Dates(r)) :
          /\ zip.entries[k].content = OwnDocx(r, k)
          /\ zip.entries[k].name = <<"getpass_">> \o Decimal(k - 1) \o <<".docx">>

\* the PDF of the request's Word files: one page run for each date, in order
IsOwnMergedPdf(r, pdf) ==
    /\ pdf.kind = "pdf"
    /\ pdf.producer = "PyPDF2"
    /\ pdf.pages = [k \in 1..Len(Dates(r)) |-> OwnDocx(r, k).document]

IsOwnSinglePdf(r, pdf) ==
    pdf = [kind |-> "pdf", producer |-> "unoconv", pages |-> <<OwnDocx(r, 1).document>>]

Answered(r, filename, media_type) ==
    response[r] = [status_code |-> 200, path |-> filename, filename |-> filename,
                   media_type |-> media_type, detail |-> <<>>]

\* C1 as stated: a request with a date that convert_to_hijri cannot parse is
\* answered with status 400 and an error message.
C1_Original ==
    \A r \in Reqs :
        (Done(r) /\ HasBadDate(r)) =>
            /\ IsErrorResponse(r, 400)

\* C2: when every conversion and the merge succeed the response is one PDF:
\* for several dates the merge of the per-date PDFs in the order of the dates,
\* none dropped or repeated; for one date that date's PDF, without a merge.
C2_MergedPdf ==
    \A r \in Reqs :
        (Done(r) /\ AllConverted(r)
            /\ (Len(Dates(r)) > 1 =>
                    Called(r, 1, "merge_pdfs") /\ LaterCall(r, 1).returned)) =>
            /\ Answered(r, "getpass.pdf", PdfType)
            /\ Len(Dates(r)) > 1 => IsOwnMergedPdf(r, body[r])
            /\ Len(Dates(r)) = 1 =>
                  /\ IsOwnSinglePdf(r, body[r])
                  /\ Len(calls[r]) = 1

\* C2 witness: three dates, the first two different, answered with the
\* merged PDF
C2_Witness ==
    /\ Done(1)
    /\ Len(Dates(1)) = 3
    /\ Dates(1)[1] # Dates(1)[2]
    /\ AllConverted(1)
    /\ Answered(1, "getpass.pdf", PdfType)
    /\ Len(body[1].pages) = 3
    /\ body[1].pages[1] # body[1].pages[2]

\* what C3 says of a request with a failed conversion, and its amendment
NoPdf(r) == response[r].media_type # PdfType /\ body[r].kind # "pdf"

SingleDocx(r) ==
    /\ Answered(r, "getpass.docx", DocxType)
    /\ body[r] = OwnDocx(r, 1)

ZipOfAll(r) ==
    /\ Answered(r, "getpass_documents.zip", ZipType)
    /\ IsOwnZip(r, body[r])

\* C3 as stated: whenever a conversion fails (all dates parsing and filling)
\* the response is never a PDF: the Word document for one date, and for
\* several dates a ZIP with one Word entry for each date.
C3_Original ==
    \A r \in Reqs :
        (Done(r) /\ SomeNotConverted(r)) =>
            /\ NoPdf(r)
            /\ Len(Dates(r)) = 1 => SingleDocx(r)
            /\ Len(Dates(r)) > 1 => ZipOfAll(r)

\* C3 as amended: the response is never a PDF; it is the Word document for
\* one date; for several dates create_docx_zip is called with all the Word
\* files, and the response is the ZIP with one entry for each date when the
\* call succeeds and status 500 without an artifact when it fails.
C3_WordFallback ==
    \A r \in Reqs :
        (Done(r) /\ SomeNotConverted(r)) =>
            /\ NoPdf(r)
            /\ Len(Dates(r)) = 1 => SingleDocx(r) /\ Len(calls[r]) = 1
            /\ Len(Dates(r)) > 1 =>
                  /\ Called(r, 1, "create_docx_zip")
                  /\ LaterCall(r, 1).arg = docx_files[r]
                  /\ LaterCall(r, 1).returned => ZipOfAll(r)
                  /\ ~LaterCall(r, 1).returned => IsErrorResponse(r, 500)

\* C3 witness: two dates, the first converted and the second not, answered
\* with the ZIP of both Word files
C3_Witness ==
    /\ Done(1)
    /\ Len(Dates(1)) = 2
    /\ AllFilled(1)
    /\ calls[1][1].returned /\ ~calls[1][2].returned
    /\ ZipOfAll(1)
    /\ Len(body[1].entries) = 2

\* the positions, in order, of the conversions among the first n calls that
\* returned True
RECURSIVE ConvertedUpTo(_, _)
ConvertedUpTo(r, n) ==
    IF n = 0 THEN <<>>
    ELSE IF calls[r][n].returned THEN Append(ConvertedUpTo(r, n - 1), n)
    ELSE ConvertedUpTo(r, n - 1)

\* the first n dates have each been filled and handed to convert_to_pdf, in
\* list order, whatever the earlier conversions returned
FilledAndTried(r, n) ==
    /\ Len(docx_files[r]) = n
    /\ Len(calls[r]) >= n
    /\ \A k \in 1..n :
          /\ docx_files[r][k] = docx_path(r, k - 1)
          /\ calls[r][k].fn = "convert_to_pdf"
          /\ calls[r][k].arg = docx_path(r, k - 1)

\* in the loop: the dates so far are filled and tried, their Word files are in
\* the temporary directory, the flag is false exactly if a conversion so far
\* failed, and the PDF list holds the PDFs of the conversions that succeeded
LoopState(r) ==
    pc[r] = "loop" =>
        /\ FilledAndTried(r, i[r])
        /\ Len(calls[r]) = i[r]
        /\ \A k \in 1..i[r] : temp_dir[r].files[docx_path(r, k - 1).name] = OwnDocx(r, k)
        /\ conversion_success[r] = (\A k \in 1..i[r] : calls[r][k].returned)
        /\ pdf_files[r] = [j \in 1..Len(ConvertedUpTo(r, i[r])) |->
                              pdf_path(r, ConvertedUpTo(r, i[r])[j] - 1)]

LoopOver(r) ==
    \/ pc[r] \in {"returned", "done"}
    \/ pc[r] = "loop" /\ i[r] = Len(Dates(r))

\* C4 as stated: a failed conversion never aborts the loop: for a request
\* whose dates all parse every date, in list order, is filled and its
\* conversion attempted whatever happened to the earlier dates, and a failure
\* only makes conversion_success false for the rest of the loop.
C4_Original ==
    \A r \in Reqs :
        /\ LoopState(r)
        /\ (LoopOver(r) /\ ~HasBadDate(r)) => FilledAndTried(r, Len(Dates(r)))

\* C4 as amended: the same for a request whose dates all parse and that has
\* at least one visitor; without a visitor process_document raises on the
\* first date and the request ends there, with no document filled.
C4_LoopGoesOn ==
    \A r \in Reqs :
        /\ LoopState(r)
        /\ (LoopOver(r) /\ ~HasBadDate(r) /\ data[r].people # <<>>) =>
              FilledAndTried(r, Len(Dates(r)))
        /\ (LoopOver(r) /\ ~HasBadDate(r) /\ data[r].people = <<>> /\ Dates(r) # <<>>) =>
              /\ docx_files[r] = <<>> /\ calls[r] = <<>>
              /\ Done(r) => IsErrorResponse(r, 500)

\* C4 witness: the loop is through three dates; the first conversion failed,
\* the second succeeded, all three documents are listed and the flag is false
C4_Witness ==
    /\ pc[1] = "loop"
    /\ i[1] = 3
    /\ Len(docx_files[1]) = 3
    /\ ~calls[1][1].returned /\ calls[1][2].returned
    /\ Len(calls[1]) = 3
    /\ ~conversion_success[1]

\* C5: when all conversions of two or more dates succeed and merge_pdfs fails
\* the request goes on to the Word fallback: create_docx_zip is called with
\* all Word files, the response is their ZIP when that call succeeds, and
\* status 500 only when it fails too.
C5_MergeFailure ==
    \A r \in Reqs :
        (Done(r) /\ Len(Dates(r)) >= 2 /\ AllConverted(r)
            /\ Called(r, 1, "merge_pdfs") /\ ~LaterCall(r, 1).returned) =>
            /\ Called(r, 2, "create_docx_zip")
            /\ LaterCall(r, 2).arg = docx_files[r]
            /\ LaterCall(r, 2).returned => ZipOfAll(r)
            /\ ~LaterCall(r, 2).returned => IsErrorResponse(r, 500)
            /\ response[r].status_code = 200 <=> LaterCall(r, 2).returned

\* C5 witness: two dates converted, the merge failed, the ZIP was sent
C5_Witness ==
    /\ Done(1)
    /\ Len(Dates(1)) >= 2
    /\ AllConverted(1)
    /\ Called(1, 1, "merge_pdfs") /\ ~LaterCall(1, 1).returned
    /\ ZipOfAll(1)

\* the artifact a response carries is the one made from the request's own
\* visitors and dates
OwnArtifact(r) ==
    /\ body[r].kind \in {"pdf", "docx", "zip"}
    /\ body[r].kind = "pdf" =>
          IF Len(Dates(r)) > 1 THEN IsOwnMergedPdf(r, body[r])
          ELSE IsOwnSinglePdf(r, body[r])
    /\ body[r].kind = "docx" => body[r] = OwnDocx(r, 1)
    /\ body[r].kind = "zip" => IsOwnZip(r, body[r])

\* C8 as stated: two requests handled at the same time share no mutable
\* state: each response carries the artifact made from its own request.
C8_Original ==
    \A r \in Reqs :
        (Done(r) /\ response[r].status_code = 200) => OwnArtifact(r)

\* C10: when the date at position k does not parse the request is aborted: no
\* date from k on is filled or converted, the request writes nothing into the
\* output directory, and no artifact is returned, whatever happened to the
\* dates before k.
C10_AbortOnBadDate ==
    \A r \in Reqs :
        HasBadDate(r) =>
            /\ Len(docx_files[r]) < FirstBadDate(r)
            /\ Len(calls[r]) < FirstBadDate(r)
            /\ \A k \in 1..Len(calls[r]) : calls[r][k].fn = "convert_to_pdf"
            /\ i[r] < FirstBadDate(r)
            /\ output_dir \in InitialOutputs
            /\ pc[r] # "returned"
            /\ response[r] # Pending => response[r].status_code # 200
            /\ Done(r) =>
                  /\ response[r].path = None
                  /\ body[r].kind = "json"
                  /\ data[r].people # <<>> =>
                        /\ i[r] = FirstBadDate(r) - 1
                        /\ FilledAndTried(r, FirstBadDate(r) - 1)

\* C10 witness: dates valid, bad, valid; the first was filled and converted;
\* the request ended at the second with an error and nothing in the output
C10_Witness ==
    /\ Done(1)
    /\ Len(Dates(1)) = 3
    /\ Parses(Dates(1)[1]) /\ ~Parses(Dates(1)[2]) /\ Parses(Dates(1)[3])
    /\ Len(docx_files[1]) = 1
    /\ calls[1] # <<>> /\ calls[1][1].returned
    /\ response[1].status_code = 500
    /\ output_dir = NoDir

(***************************************************************************)
(* Claims about the style pass of process_document (SpecDoc)               *)
(***************************************************************************)
\* the cells of the saved document's first table, which only the substitution
\* and the style pass have touched
FormRows == pd_result.file.tables[1].rows

\* the category the four rules give a trimmed text, taken in their order
RuleOf(text) ==
    LET V(key) == Get(ArgItems, key)
        isLabel == Contains(text, LabelFragment)
        isDate == text \in {V(KeyD), V(KeyM), V(KeyY), V(Keyd), V(Keym), V(Keyyyyy)}
        isVisitor ==
            \/ \E k \in 1..Len(ArgPeople) :
                  text \in {ArgPeople[k].name, ArgPeople[k].nationality,
                            ArgPeople[k].id_number}
            \/ text = pd_args.date_info[2]
    IN  CASE isLabel -> 1
          [] ~isLabel /\ isDate -> 2
          [] ~isLabel /\ ~isDate /\ isVisitor -> 3
          [] OTHER -> 4

\* the size and weight a run of the category has been given
StyledAs(run, c) ==
    /\ run.font.size = (IF c = 2 THEN 8 ELSE 15)
    /\ run.font.bold = (c # 1)
    /\ c \in {1, 4} => run.font.name = "Times New Roman (Headings CS)"
    /\ c = 2 => run.font.name = "Arial (Body CS)"

\* the alignment the claim gives a paragraph whose last run has this text
AlignmentAsClaimed(text) ==
    LET V(key) == Get(ArgItems, key)
    IN  IF RuleOf(text) = 2 /\ text \in {V(KeyD), V(Keyd), V(KeyM), V(Keym)}
        THEN "CENTER"
        ELSE "RIGHT"

StylePassDone ==
    /\ pd_result # Pending
    /\ pd_result.raised = None

\* C11 as stated: the style pass puts every run into the first category that
\* matches its trimmed text (label, date value, visitor value or weekday,
\* anything else), and the paragraph ends right-aligned in every category,
\* the fourth included, except for day and month values, which are centered.
C11_Original ==
    StylePassDone =>
        \A r \in 1..Len(FormRows) : \A c \in 1..Len(FormRows[r]) :
            \A p \in 1..Len(FormRows[r][c]) :
                LET para == FormRows[r][c][p]
                    n == Len(para.runs)
                IN  /\ \A k \in 1..n :
                          StyledAs(para.runs[k], RuleOf(Strip(para.runs[k].text)))
                    /\ n > 0 =>
                          para.alignment = AlignmentAsClaimed(Strip(para.runs[n].text))

\* a request that came without a visitor or without a date
EmptyRequest(r) ==
    /\ pc[r] # "absent"
    /\ data[r].people = <<>> \/ Dates(r) = <<>>

\* C12: a request with no visitor or with no date is rejected, whatever the
\* other list holds: the handler never returns a file response, the request
\* ends in an error response with no artifact, and no file of the output
\* directory is written.
C12_EmptyRejected ==
    \A r \in Reqs :
        EmptyRequest(r) =>
            /\ pc[r] # "returned"
            /\ docx_files[r] = <<>> /\ pdf_files[r] = <<>>
            /\ \A k \in 1..Len(calls[r]) :
                  calls[r][k].fn \notin {"merge_pdfs", "create_docx_zip"}
            /\ output_dir.files \in {o.files : o \in InitialOutputs}
            /\ response[r] # Pending =>
                  /\ response[r].status_code >= 400
                  /\ response[r].path = None
            /\ Done(r) =>
                  /\ IsErrorResponse(r, 500)
                  /\ body[r].kind = "json"

\* C12 witness: a request without a visitor whose first date parses has ended
\* with the error process_document raised
C12_Witness ==
    /\ Done(1)
    /\ data[1].people = <<>>
    /\ Dates(1) # <<>>
    /\ Parses(Dates(1)[1])
    /\ IsErrorResponse(1, 500)
    /\ response[1].detail[2] = [exception |-> "IndexError"]

(***************************************************************************)
(* SpecSub: process_document applied to templates whose form is one cell   *)
(* of any text put together from placeholders, pieces of placeholders and  *)
(* plain words, and to visitors whose values may hold placeholder tokens.  *)
(***************************************************************************)
MaxPieces == 3

Pieces ==
    { KeyD, KeyVisitor(1), KeyId(1), KeyFirst, <<"[">>, <<"D", "]">>, <<" ", "wa", " ">> }

RECURSIVE TextsUpTo(_)
TextsUpTo(n) ==
    IF n = 0 THEN {<<>>}
    ELSE TextsUpTo(n - 1) \cup {t \o p : t \in TextsUpTo(n - 1), p \in Pieces}

\* visitors: a plain one; one named like a key that comes before the visitor
\* keys; one named like a key that comes after them, with an id like the
\* visitor key; one whose name and id are the two halves of a key
TokenPersons ==
    << [name |-> <<"Ali">>, nationality |-> <<"SA">>, id_number |-> <<"1", "0", "1">>],
       [name |-> KeyD, nationality |-> <<"SA">>, id_number |-> <<"2", "0", "2">>],
       [name |-> KeyFirst, nationality |-> KeyM, id_number |-> KeyVisitor(1)],
       [name |-> <<"[">>, nationality |-> <<"EG">>, id_number |-> <<"D", "]">>] >>

TokenPeopleLists ==
    LET P == {TokenPersons[k] : k \in 1..Len(TokenPersons)}
        plain == TokenPersons[1]
    IN  {<<>>} \cup {<<p>> : p \in P}
               \cup {<<plain, p>> : p \in P} \cup {<<p, plain>> : p \in P}
               \cup {<<p, plain, p>> : p \in P}

OneCellTemplate(text) ==
    [tables |-> << [cols |-> 1, rows |-> << <<TemplateCell(text)>> >>], VisitorTable(2) >>,
     settings |-> <<"w:zoom">>]

InitSub ==
    /\ pd_args \in [date_info : {convert_to_hijri(FormatDate(2024, 1, 1)).value},
                    people : TokenPeopleLists,
                    template : {OneCellTemplate(t) : t \in TextsUpTo(MaxPieces)}]
    /\ pd_result = Pending
    /\ DateIdle /\ ReqIdle

SpecSub == InitSub /\ [][NextDoc]_vars

(***************************************************************************)
(* Claims about the substitution step of process_document (SpecSub)        *)
(***************************************************************************)
\* the text of the form's cell in the template and in the saved document; the
\* style pass and the overflow table leave that text as the substitution
\* made it
TextBefore == cell_text(pd_args.template.tables[1].rows[1][1])

TextAfter == cell_text(pd_result.file.tables[1].rows[1][1])

Substituted ==
    /\ pd_result # Pending
    /\ pd_result.raised = None

HoldsKey(text) == \E key \in FixedKeys : Contains(text, key)

Brackets == {"(", ")", "[", "]"}

\* a value without any of the characters that delimit a placeholder
Plain(value) == \A k \in 1..Len(value) : value[k] \notin Brackets

PlainVisitors ==
    \A k \in 1..Len(ArgPeople) :
        /\ Plain(ArgPeople[k].name)
        /\ Plain(ArgPeople[k].nationality)
        /\ Plain(ArgPeople[k].id_number)

\* a text in which the placeholders stand apart: it is made of whole
\* placeholders and of text without brackets
RECURSIVE StandApart(_)
StandApart(text) ==
    IF text = <<>> THEN TRUE
    ELSE IF \E key \in FixedKeys : StartsWith(text, key)
    THEN LET key == CHOOSE key \in FixedKeys : StartsWith(text, key)
         IN  StandApart(SubSeq(text, Len(key) + 1, Len(text)))
    ELSE text[1] \notin Brackets /\ StandApart(Tail(text))

\* every placeholder of the text replaced by its value in one pass from left
\* to right, the values themselves left as they are
RECURSIVE AllAtOnce(_, _)
AllAtOnce(text, items) ==
    IF text = <<>> THEN <<>>
    ELSE IF \E k \in 1..Len(items) : StartsWith(text, items[k][1])
    THEN LET k == CHOOSE k \in 1..Len(items) : StartsWith(text, items[k][1])
         IN  items[k][2] \o AllAtOnce(SubSeq(text, Len(items[k][1]) + 1, Len(text)), items)
    ELSE <<text[1]>> \o AllAtOnce(Tail(text), items)

\* C13 as stated: after the substitution no cell's text holds a placeholder
\* key, for every template cell text and every choice of visitor values,
\* values that themselves hold a placeholder token included.
C13_Original ==
    Substituted => ~HoldsKey(TextAfter)

\* C13 as amended: the same for a template cell text in which the
\* placeholders stand apart and for visitor values without the bracket
\* characters that delimit placeholders; the cell's text is then the template
\* text with every placeholder replaced by its value.
C13_NoKeyLeft ==
    (Substituted /\ StandApart(TextBefore) /\ PlainVisitors) =>
        /\ ~HoldsKey(TextAfter)
        /\ TextAfter = AllAtOnce(TextBefore, ArgItems)

\* C13 witness: a cell with the visitor placeholder, a plain word and the
\* day placeholder, filled for a visitor with plain values
C13_Witness ==
    /\ Substituted
    /\ PlainVisitors
    /\ TextBefore = KeyVisitor(1) \o <<" ", "wa", " ">> \o KeyD
    /\ TextAfter = ArgPeople[1].name \o <<" ", "wa", " ">> \o <<"1", "9">>

====
